---------------------------- MODULE Spec2Model ----------------------------
(***************************************************************************)
(* Model of vrig_docker/sync.py: the Redis-stream -> PostgreSQL sync       *)
(* service.  One asyncio event loop runs main(), one consume_stream task   *)
(* per broker source and the process_operations flush loop.  asyncio is    *)
(* cooperative, so every action below is the code that runs between two    *)
(* awaits of one task.                                                     *)
(*                                                                         *)
(* Time is counted in units of 100 ms: BATCH_TIMEOUT = 0.1 s = 1 unit,     *)
(* the wait_for timeout of 0.1 s = 1 unit, and asyncio.sleep(0.01) is      *)
(* shorter than one unit, so it may end without the clock advancing.       *)
(* Time stamps are kept relative to the present: time.time() reads 0, and  *)
(* a tick of the clock moves every stored time stamp one unit into the     *)
(* past.  The code only compares differences with BATCH_TIMEOUT and the    *)
(* wait_for timeout, so a stamp older than both is kept at that age.       *)
(***************************************************************************)
EXTENDS Integers, Sequences, FiniteSets, TLC

\* ------------------------------------------------------------ configuration
\* os.getenv settings of sync.py, scaled down
DB_WORKER_THREADS == 2
BATCH_SIZE == 2
BATCH_TIMEOUT == 1
GET_TIMEOUT == 1
READ_COUNT == 100
NumSources == 2

\* ------------------------------------------------------------------ bounds
MaxBatchLen == 3
MaxErrors == 1

Sources == 1..NumSources
Workers == 0..(DB_WORKER_THREADS - 1)

\* a field that the mapping does not hold (dict.get falls back to the default)
Absent == "<absent>"

Get(d, field, default) == IF d[field] = Absent THEN default ELSE d[field]

\* Python truthiness of an optional string
Truthy(v) == v # Absent /\ v # ""

\* ----------------------------------------------------------------- messages
\* program keys: the empty key is what data.get(b'program_base64', b'') gives
Keys == {"AQID", "BAUG"}

\* the stream entries the producers can append (redis_producer.py): the fields
\* of one entry, each a string or absent
Message(op, key, fid, etid, fv, cov, flags) ==
    [op |-> op, program_base64 |-> key, fuzzer_id |-> fid, execution_type_id |-> etid,
     feedback_vector |-> fv, coverage_total |-> cov, execution_flags |-> flags]

Entry(op, key, etid, fv) == Message(op, key, Absent, etid, fv, Absent, Absent)

\* the execution_flags values the producers send: a comma-separated list, a
\* single flag, and the JSON text that redis_producer.py writes
FlagsCsv == "is_debug=false,v8_fuzzilli=true"
FlagsOne == "target_cpu=x64"
FlagsJson == "[\"is_debug=false\", \"v8_fuzzilli=true\"]"

\* the entries a list of operations for one worker is decoded from
WorkerEntries ==
    {Entry("test_program", k, Absent, Absent) : k \in Keys}
    \cup {Entry("execution", "AQID", e, "null") : e \in {"1", "2", ""}}
    \cup {Entry("update_feedback", "AQID", Absent, "{edges}")}
    \cup {Entry("del", k, Absent, Absent) : k \in Keys}
    \cup {Entry("execution", "BAUG", "abc", "null"),
          Message("execution", "BAUG", "1", "2", "null", "n/a", FlagsOne),
          Entry("update_feedback", "AQID", Absent, "{edges")}

\* what the two brokers deliver, one sequence per source
StreamsA ==
    <<  <<Entry("test_program", "AQID", Absent, Absent), Entry("del", "AQID", Absent, Absent)>>,
        <<Entry("test_program", "BAUG", Absent, Absent)>>  >>

StreamsB ==
    <<  <<Entry("del", "BAUG", Absent, Absent), Entry("test_program", "AQID", Absent, Absent)>>,
        <<Entry("test_program", "AQID", Absent, Absent)>>  >>

\* the end-to-end scenario: create_fuzzer, test_program, execution and
\* update_feedback for one program, all from the first source
StreamsEndToEnd ==
    <<  <<Message("create_fuzzer", Absent, Absent, Absent, Absent, Absent, Absent),
          Message("test_program", "AQID", "1", Absent, Absent, Absent, Absent),
          Message("execution", "AQID", "1", "1", Absent, "85.5", FlagsCsv),
          Message("update_feedback", "AQID", Absent, Absent, "{edges}", Absent, Absent)>>,
        <<>>  >>

\* the same test_program message delivered twice
StreamsDuplicate ==
    <<  <<Message("test_program", "AQID", "1", Absent, Absent, Absent, Absent),
          Message("test_program", "AQID", "1", Absent, Absent, Absent, Absent)>>,
        <<>>  >>

\* entries without an op field or with an op no producer writes, and a
\* fuzzer_program with the flags as redis_producer.py encodes them
StreamsOddOps ==
    <<  <<Message(Absent, "BAUG", Absent, Absent, Absent, Absent, Absent),
          Message("bogus", "BAUG", Absent, Absent, Absent, Absent, "")>>,
        <<Message("fuzzer_program", "BAUG", "1", Absent, Absent, Absent, FlagsJson)>>  >>

\* hash() of a str: fixed inside one process, may be negative
Hash(key) ==
    CASE key = "AQID" -> 7
      [] key = "BAUG" -> -6
      [] OTHER -> 0

\* the list substituted for an empty or missing execution_flags field
DEFAULT_EXECUTION_FLAGS ==
    <<"is_debug=false", "v8_enable_i18n_support=false", "dcheck_always_on=true",
      "v8_static_library=true", "v8_enable_verify_heap=true", "v8_fuzzilli=true",
      "sanitizer_coverage_flags=trace-pc-guard", "target_cpu=x64">>

\* str.split(',') on the execution_flags values
Split(s) ==
    CASE s = FlagsCsv -> <<"is_debug=false", "v8_fuzzilli=true">>
      [] s = FlagsJson -> <<"[\"is_debug=false\"", " \"v8_fuzzilli=true\"]">>
      [] OTHER -> <<s>>

\* the execution_flags of an operation that has none (op.get(..., []))
NoFlags == <<>>

\* a variant that leaves the flags of a message without flags empty
DecodeFlags_empty_default(execution_flags_str) ==
    IF execution_flags_str # "" THEN Split(execution_flags_str) ELSE NoFlags

\* "if execution_flags_str: ... split(',') else: <the default list>"
DecodeFlags(execution_flags_str) ==
    IF execution_flags_str # "" THEN Split(execution_flags_str)
    ELSE DEFAULT_EXECUTION_FLAGS

\* the decoding of one stream entry into an operation dict
DecodeEntry(msg_id, data) ==
    LET op == Get(data, "op", "")
        program_base64 == Get(data, "program_base64", "")
    IN  IF op = "del"
        THEN [op |-> op, program_base64 |-> program_base64, msg_id |-> msg_id,
              fuzzer_id |-> Absent, execution_type_id |-> Absent,
              feedback_vector |-> Absent, coverage_total |-> Absent,
              execution_flags |-> NoFlags]
        ELSE IF op = "update_feedback"
        THEN [op |-> op, program_base64 |-> program_base64, msg_id |-> msg_id,
              fuzzer_id |-> Absent, execution_type_id |-> Absent,
              feedback_vector |-> Get(data, "feedback_vector", "null"),
              coverage_total |-> Absent, execution_flags |-> NoFlags]
        ELSE [op |-> op, program_base64 |-> program_base64, msg_id |-> msg_id,
              fuzzer_id |-> Get(data, "fuzzer_id", "0"),
              execution_type_id |-> Get(data, "execution_type_id", "1"),
              feedback_vector |-> Get(data, "feedback_vector", "null"),
              coverage_total |-> Get(data, "coverage_total", "0"),
              execution_flags |-> DecodeFlags(Get(data, "execution_flags", ""))]


\* ------------------------------------------------------- Persistence Worker
\* int(...) of a decoded field: the numerals parse, anything else raises
ParseError == 0 - 1
ParseInt(v) ==
    CASE v = "1" -> 1
      [] v = "2" -> 2
      [] v = "0" -> 0
      [] OTHER -> ParseError

\* float(...) of a decoded field, in tenths
ParseFloat(v) ==
    CASE v = "85.5" -> 855
      [] v = "1" -> 10
      [] v = "2" -> 20
      [] v = "0" -> 0
      [] OTHER -> ParseError

\* "op.get(field, d) or d": the default also replaces an empty value
OrDefault(v, d) == IF Truthy(v) THEN v ELSE d

\* the list an operation is appended to by the partition loop of process_batch
GroupOf(operation) ==
    IF operation.op = "del" THEN "deletes"
    ELSE IF operation.op = "update_feedback" THEN "updates"
    ELSE IF Truthy(operation.execution_type_id) THEN "execution_upserts"
    ELSE "program_upserts"

Group(batch, g) == SelectSeq(batch, LAMBDA o : GroupOf(o) = g)

\* a variant that deletes before it updates, for comparison
GroupOrder_deletes_before_updates ==
    <<"program_upserts", "execution_upserts", "deletes", "updates">>

\* a variant that deletes before anything else, for comparison
GroupOrder_deletes_first ==
    <<"deletes", "program_upserts", "execution_upserts", "updates">>

\* the order of the four "if <list>: await self._batch_...()" statements
GroupOrder == <<"program_upserts", "execution_upserts", "updates", "deletes">>

EmptyStore == [program |-> {}, execution |-> {}]

\* one row of an executemany, on the tables of the store
ExecRow(st, g, o) ==
    CASE g = "program_upserts" ->
            [st EXCEPT !.program = @ \cup {o.program_base64}]
      [] g = "execution_upserts" ->
            LET etid == ParseInt(OrDefault(o.execution_type_id, "1"))
            IN  [st EXCEPT !.execution =
                    {r \in @ : ~(r.program_base64 = o.program_base64
                                 /\ r.execution_type_id = etid)}
                    \cup {[program_base64 |-> o.program_base64,
                           execution_type_id |-> etid,
                           feedback_vector |-> Get(o, "feedback_vector", "null"),
                           coverage_total |-> ParseFloat(OrDefault(o.coverage_total, "0")),
                           execution_flags |-> o.execution_flags]}]
      [] g = "updates" ->
            [st EXCEPT !.execution =
                    {IF r.program_base64 = o.program_base64
                     THEN [r EXCEPT !.feedback_vector = Get(o, "feedback_vector", "null")]
                     ELSE r : r \in @}]
      [] g = "deletes" ->
            [st EXCEPT !.program = @ \ {o.program_base64}]

RECURSIVE ExecuteMany(_, _, _)
ExecuteMany(st, g, ops) ==
    IF ops = <<>> THEN st
    ELSE ExecuteMany(ExecRow(st, g, Head(ops)), g, Tail(ops))

\* building the values list raises when a numeric field does not parse
ValuesRaise(g, ops) ==
    \/ /\ g = "program_upserts"
       /\ \E i \in 1..Len(ops) : ParseInt(OrDefault(ops[i].fuzzer_id, "0")) = ParseError
    \/ /\ g = "execution_upserts"
       /\ \E i \in 1..Len(ops) :
             \/ ParseInt(OrDefault(ops[i].execution_type_id, "1")) = ParseError
             \/ ParseFloat(OrDefault(ops[i].coverage_total, "0")) = ParseError

Statements(g, ops) == [i \in 1..Len(ops) |-> [group |-> g, msg_id |-> ops[i].msg_id]]

\* process_batch from group number k on; failAt is the group whose statement
\* the store rejects (0: the connection checkout fails, 5: nothing fails).
\* The result tells what the call did to the store, which rows it executed
\* and how it ended: error is "ValueError" when a values list could not be
\* built, "rejected" when the pool or the store refused, "none" otherwise.
RECURSIVE RunGroups(_, _, _, _, _)
RunGroups(st, batch, k, failAt, done) ==
    IF k > Len(GroupOrder)
    THEN [store |-> st, executed |-> done, raised |-> FALSE, error |-> "none"]
    ELSE LET g == GroupOrder[k]
             ops == Group(batch, g)
         IN  IF ops = <<>>
             THEN RunGroups(st, batch, k + 1, failAt, done)
             ELSE IF ValuesRaise(g, ops)
             THEN [store |-> st, executed |-> done, raised |-> TRUE,
                   error |-> "ValueError"]
             ELSE IF failAt = k
             THEN [store |-> st, executed |-> done, raised |-> TRUE,
                   error |-> "rejected"]
             ELSE RunGroups(ExecuteMany(st, g, ops), batch, k + 1, failAt,
                            done \o Statements(g, ops))

process_batch(st, batch, failAt) ==
    IF batch = <<>>
    THEN [store |-> st, executed |-> <<>>, raised |-> FALSE, error |-> "none"]
    ELSE IF failAt = 0
    THEN [store |-> st, executed |-> <<>>, raised |-> TRUE, error |-> "rejected"]
    ELSE RunGroups(st, batch, 1, failAt, <<>>)

FailPoints == 0..5


\* ------------------------------------------------------------------- state
VARIABLES
    stream,           \* per source: the entries the broker delivers, in order
    cursor,           \* per source: how many entries were delivered so far
    resp,             \* per consumer: entries of the response still to finish
    c_pc,             \* per consumer: the await it is suspended at
    acked,            \* per consumer: the msg_ids acknowledged, in order
    errors,           \* broker calls that raised so far
    operation_queue,  \* DatabaseBatchProcessor.operation_queue
    put_log,          \* the msg_ids given to add_operation, in order
    running,          \* DatabaseBatchProcessor.running
    fl_pc,            \* process_operations: the await it is suspended at
    batch,            \* process_operations: batch
    last_batch_time,  \* process_operations: last_batch_time
    current_time,     \* process_operations: current_time
    wait_start,       \* when the pending wait_for started
    first_put_time,   \* when batch[0] was appended to the batch
    call,             \* the process_batch calls in flight, per caller
    pool,             \* per worker: state of its connection_pool
    store,            \* the tables of the relational store
    handed,           \* every batch given to a worker's process_batch, in order
    main_pc,          \* main(): where it is
    drain_i,          \* close(): index of the worker in the drain loop
    close_i           \* close(): index of the worker being closed

vars == <<stream, cursor, resp, c_pc, acked, errors, operation_queue, put_log,
          running, fl_pc, batch, last_batch_time, current_time, wait_start,
          first_put_time, call, pool, store, handed, main_pc, drain_i, close_i>>

consumerVars == <<stream, cursor, resp, c_pc, acked, errors>>
flushVars == <<fl_pc, batch, last_batch_time, current_time, wait_start, first_put_time>>
closeVars == <<drain_i, close_i>>

NoCall == [worker |-> 0 - 1, batch |-> <<>>, acquired |-> FALSE]

\* who awaits a process_batch: the flush loop, close(), test_database_worker
Callers == {"flush", "drain", "test"}

\* the entries of a stream, with the ids the broker gives them
MsgId(c, i) == <<c, i>>

InitStreams == {StreamsA, StreamsB}

\* time.time(): the present
now == 0

\* main() awaits asyncio.gather: initialize() has opened the pools, and every
\* task has run to its first await, in the order the tasks were created:
\* process_operations ("batch = []; last_batch_time = time.time()", then the
\* wait_for) and each consume_stream (the xgroup_create of ensure_group)
Init ==
    /\ stream \in InitStreams
    /\ cursor = [c \in Sources |-> 0]
    /\ resp = [c \in Sources |-> <<>>]
    /\ c_pc = [c \in Sources |-> "ensure_group"]
    /\ acked = [c \in Sources |-> <<>>]
    /\ errors = 0
    /\ operation_queue = <<>>
    /\ put_log = <<>>
    /\ running = TRUE
    /\ fl_pc = "get"
    /\ batch = <<>>
    /\ last_batch_time = now
    /\ current_time = now
    /\ wait_start = now
    /\ first_put_time = now
    /\ call = [t \in Callers |-> NoCall]
    /\ pool = [w \in Workers |-> "open"]
    /\ store = EmptyStore
    /\ handed = <<>>
    /\ main_pc = "gather"
    /\ drain_i = 0
    /\ close_i = 0

\* the oldest age the code can tell from an older one
Horizon == IF BATCH_TIMEOUT > GET_TIMEOUT THEN BATCH_TIMEOUT ELSE GET_TIMEOUT

Older(t) == IF t - 1 < now - Horizon THEN now - Horizon ELSE t - 1

FlushAlive == fl_pc \in {"get", "process_batch", "sleep"}

\* the clock advances by one unit; a stamp is aged only while the code can
\* still read it (last_batch_time in the loop, current_time until it is
\* stored after process_batch, the wait_for deadline while waiting)
Tick ==
    /\ last_batch_time' = IF FlushAlive THEN Older(last_batch_time) ELSE last_batch_time
    /\ current_time' =
          IF fl_pc = "process_batch" THEN Older(current_time) ELSE current_time
    /\ wait_start' = IF fl_pc = "get" THEN Older(wait_start) ELSE wait_start
    /\ first_put_time' =
          IF FlushAlive /\ batch # <<>> THEN Older(first_put_time) ELSE first_put_time
    /\ UNCHANGED <<consumerVars, operation_queue, put_log, running, fl_pc, batch, call,
                   pool, store, handed, main_pc, closeVars>>

\* ---------------------------------------------------------- Stream Consumer
IdsOf(ops) == [i \in 1..Len(ops) |-> ops[i].msg_id]

\* a variant that keeps deletions off the queue, for comparison
add_operation_skips_del(queue, operation) ==
    IF operation.op = "del" THEN queue ELSE Append(queue, operation)

add_operation(queue, operation) == Append(queue, operation)

\* the entries xreadgroup returns: the next n of the stream, with their ids
ReadEntries(c, n) ==
    [i \in 1..n |-> [msg_id |-> MsgId(c, cursor[c] + i), data |-> stream[c][cursor[c] + i]]]

\* the loop body for one entry up to "await r.xack": decode and enqueue
Enqueue(entry) ==
    LET q == add_operation(operation_queue, DecodeEntry(entry.msg_id, entry.data))
    IN  /\ operation_queue' = q
        /\ put_log' = put_log \o IdsOf(SubSeq(q, Len(operation_queue) + 1, Len(q)))

\* ensure_group returns: the group was created, or BUSYGROUP was swallowed
EnsureGroup(c) ==
    /\ c_pc[c] = "ensure_group"
    /\ c_pc' = [c_pc EXCEPT ![c] = "xreadgroup"]
    /\ UNCHANGED <<stream, cursor, resp, acked, errors, operation_queue, put_log,
                   running, flushVars, call, pool, store, handed, main_pc, closeVars>>

\* ensure_group re-raises: the task ends with the exception, and gather (without
\* return_exceptions) hands it to main() at once, leaving the other tasks alone
EnsureGroupRaise(c) ==
    /\ c_pc[c] = "ensure_group"
    /\ c_pc' = [c_pc EXCEPT ![c] = "failed"]
    /\ main_pc' = IF main_pc = "gather" THEN "close" ELSE main_pc
    /\ UNCHANGED <<stream, cursor, resp, acked, errors, operation_queue, put_log,
                   running, flushVars, call, pool, store, handed, closeVars>>

\* xreadgroup returns n >= 1 entries; the first is decoded and enqueued and its
\* xack is awaited (an empty response only restarts the loop)
XReadGroup(c) ==
    /\ c_pc[c] = "xreadgroup"
    /\ \E n \in 1..READ_COUNT :
          /\ cursor[c] + n <= Len(stream[c])
          /\ LET entries == ReadEntries(c, n)
             IN  /\ resp' = [resp EXCEPT ![c] = entries]
                 /\ Enqueue(Head(entries))
          /\ cursor' = [cursor EXCEPT ![c] = @ + n]
    /\ c_pc' = [c_pc EXCEPT ![c] = "xack"]
    /\ UNCHANGED <<stream, acked, errors, running, flushVars, call, pool, store,
                   handed, main_pc, closeVars>>

\* xreadgroup raises: "except Exception: await asyncio.sleep(1)"
XReadGroupRaise(c) ==
    /\ c_pc[c] = "xreadgroup"
    /\ errors < MaxErrors
    /\ errors' = errors + 1
    /\ c_pc' = [c_pc EXCEPT ![c] = "sleep"]
    /\ UNCHANGED <<stream, cursor, resp, acked, operation_queue, put_log,
                   running, flushVars, call, pool, store, handed, main_pc, closeVars>>

\* xack returns; the for loop goes on to the next entry of the response, or
\* the while loop to the next xreadgroup
XAck(c) ==
    /\ c_pc[c] = "xack"
    /\ acked' = [acked EXCEPT ![c] = Append(@, Head(resp[c]).msg_id)]
    /\ resp' = [resp EXCEPT ![c] = Tail(@)]
    /\ IF Tail(resp[c]) # <<>>
       THEN /\ Enqueue(Head(Tail(resp[c])))
            /\ c_pc' = c_pc
       ELSE /\ c_pc' = [c_pc EXCEPT ![c] = "xreadgroup"]
            /\ UNCHANGED <<operation_queue, put_log>>
    /\ UNCHANGED <<stream, cursor, errors, running, flushVars, call, pool, store,
                   handed, main_pc, closeVars>>

\* xack raises: the rest of the response is abandoned
XAckRaise(c) ==
    /\ c_pc[c] = "xack"
    /\ errors < MaxErrors
    /\ errors' = errors + 1
    /\ resp' = [resp EXCEPT ![c] = <<>>]
    /\ c_pc' = [c_pc EXCEPT ![c] = "sleep"]
    /\ UNCHANGED <<stream, cursor, acked, operation_queue, put_log,
                   running, flushVars, call, pool, store, handed, main_pc, closeVars>>

\* a variant in which the consumer gives up after its back-off sleep
BackoffDone_gives_up(c) ==
    /\ c_pc[c] = "sleep"
    /\ c_pc' = [c_pc EXCEPT ![c] = "failed"]
    /\ UNCHANGED <<stream, cursor, resp, acked, errors, operation_queue, put_log,
                   running, flushVars, call, pool, store, handed, main_pc, closeVars>>

\* the back-off sleep ends: back to the top of "while True"
BackoffDone(c) ==
    /\ c_pc[c] = "sleep"
    /\ c_pc' = [c_pc EXCEPT ![c] = "xreadgroup"]
    /\ UNCHANGED <<stream, cursor, resp, acked, errors, operation_queue, put_log,
                   running, flushVars, call, pool, store, handed, main_pc, closeVars>>

\* ---------------------------------------------------- calls of process_batch
\* "await worker.process_batch(b)" starts: the connection checkout succeeds
\* only on a pool that is neither closing nor closed
NewCall(w, b) == [worker |-> w, batch |-> b, acquired |-> pool[w] = "open"]

\* the record of a batch given to a worker: who gave it, what the clock read
\* at that moment, and, once the call has ended, how it ended and which rows
\* it executed
Handed(caller, w, b, firstAge, sinceLast) ==
    [by |-> caller, worker |-> w, batch |-> b, first_age |-> firstAge,
     since_last |-> sinceLast, outcome |-> "pending", executed |-> <<>>,
     error |-> "none"]

LastOf(h, caller) ==
    CHOOSE i \in DOMAIN h : h[i].by = caller /\ \A j \in DOMAIN h : j > i => h[j].by # caller

Ended(h, caller, outcome, r) ==
    [h EXCEPT ![LastOf(h, caller)] =
        [@ EXCEPT !.outcome = outcome, !.executed = r.executed,
                  !.error = IF outcome = "raised" THEN r.error ELSE "none"]]

\* what the call in flight does to the store when it ends
CallResult(caller, failAt) ==
    process_batch(store, call[caller].batch,
                  IF call[caller].acquired THEN failAt ELSE 0)

\* -------------------------------------------------- flush loop and the router
\* a variant that routes by the last operation's key, for comparison
worker_index_last_key(b) == Hash(Get(b[Len(b)], "program_base64", "")) % DB_WORKER_THREADS

\* worker_index = hash(batch[0].get('program_base64', '')) % len(self.workers)
worker_index(b) == Hash(Get(b[1], "program_base64", "")) % DB_WORKER_THREADS

\* variants of the flush condition, for comparison with should_process_batch
should_process_batch_no_age_test(b, cur, last) ==
    \/ Len(b) >= BATCH_SIZE
    \/ b # <<>>

should_process_batch_size_only(b, cur, last) == Len(b) >= BATCH_SIZE

should_process_batch_above_size(b, cur, last) ==
    \/ Len(b) > BATCH_SIZE
    \/ (b # <<>> /\ cur - last >= BATCH_TIMEOUT)

should_process_batch(b, cur, last) ==
    \/ Len(b) >= BATCH_SIZE
    \/ (b # <<>> /\ cur - last >= BATCH_TIMEOUT)

\* process_operations has ended: its frame, with batch and the time stamps,
\* is gone
DropLocals ==
    /\ batch' = <<>>
    /\ last_batch_time' = now
    /\ current_time' = now
    /\ wait_start' = now
    /\ first_put_time' = now

\* the rest of the iteration after the wait_for, with b the batch it left and
\* firstPut the time its first operation was appended
AfterGet(b, firstPut) ==
    /\ batch' = b
    /\ first_put_time' = firstPut
    /\ wait_start' = now
    /\ current_time' = now
    /\ IF should_process_batch(b, now, last_batch_time) /\ b # <<>>
       THEN /\ call' = [call EXCEPT !["flush"] = NewCall(worker_index(b), b)]
            /\ handed' = Append(handed, Handed("flush", worker_index(b), b,
                                               now - firstPut, now - last_batch_time))
            /\ fl_pc' = "process_batch"
       ELSE /\ fl_pc' = "sleep"
            /\ UNCHANGED <<call, handed>>

\* wait_for returns an operation
FlushGet ==
    /\ fl_pc = "get"
    /\ operation_queue # <<>>
    /\ operation_queue' = Tail(operation_queue)
    /\ AfterGet(Append(batch, Head(operation_queue)),
                IF batch = <<>> THEN now ELSE first_put_time)
    /\ UNCHANGED <<consumerVars, put_log, running, last_batch_time, pool, store,
                   main_pc, closeVars>>

\* a variant that awaits operation_queue.get() without a timeout, for
\* comparison
FlushTimeout_waits_forever ==
    /\ fl_pc = "get"
    /\ FALSE
    /\ UNCHANGED vars

\* wait_for raises TimeoutError after 0.1 s on an empty queue
FlushTimeout ==
    /\ fl_pc = "get"
    /\ operation_queue = <<>>
    /\ now - wait_start >= GET_TIMEOUT
    /\ AfterGet(batch, first_put_time)
    /\ UNCHANGED <<consumerVars, operation_queue, put_log, running, last_batch_time,
                   pool, store, main_pc, closeVars>>

\* a variant that keeps the operations of a failed batch for the next flush
BatchAfterCall_keep_failed(b, raised) == IF raised THEN b ELSE <<>>

\* "batch.clear()" after the try statement, reached whether or not
\* process_batch raised
BatchAfterCall(b, raised) == <<>>

\* the rest of the iteration after process_batch ended, either way
AfterProcessBatch(r) ==
    /\ store' = r.store
    /\ handed' = Ended(handed, "flush", IF r.raised THEN "raised" ELSE "returned",
                       r)
    /\ call' = [call EXCEPT !["flush"] = NoCall]
    /\ batch' = BatchAfterCall(batch, r.raised)
    /\ first_put_time' = now
    /\ last_batch_time' = current_time
    /\ fl_pc' = "sleep"

\* worker.process_batch returns
FlushReturn ==
    /\ fl_pc = "process_batch"
    /\ LET r == CallResult("flush", 5)
       IN  /\ ~r.raised
           /\ AfterProcessBatch(r)
    /\ UNCHANGED <<consumerVars, operation_queue, put_log, running, current_time,
                   wait_start, pool, main_pc, closeVars>>

\* worker.process_batch raises: "except Exception: pass"
FlushRaise ==
    /\ fl_pc = "process_batch"
    /\ \E failAt \in FailPoints :
          LET r == CallResult("flush", failAt)
          IN  /\ r.raised
              /\ AfterProcessBatch(r)
    /\ UNCHANGED <<consumerVars, operation_queue, put_log, running, current_time,
                   wait_start, pool, main_pc, closeVars>>

\* asyncio.sleep(0.01) ends: the loop condition, then the next wait_for
FlushSleepDone ==
    /\ fl_pc = "sleep"
    /\ IF running
       THEN /\ fl_pc' = "get"
            /\ wait_start' = now
            /\ UNCHANGED <<batch, last_batch_time, current_time, first_put_time>>
       ELSE /\ fl_pc' = "done"
            /\ DropLocals
    /\ UNCHANGED <<consumerVars, operation_queue, put_log, running, call, pool, store,
                   handed, main_pc, closeVars>>

\* ------------------------------------------------------- main() and close()
\* every task still alive is cancelled: CancelledError is raised at its await
\* and no "except Exception" catches it.  A process_batch that is cancelled
\* has executed the statements before the one it was waiting for.
CancelTasks ==
    /\ c_pc' = [c \in Sources |-> IF c_pc[c] = "failed" THEN "failed" ELSE "cancelled"]
    /\ resp' = [c \in Sources |-> <<>>]
    /\ fl_pc' = IF fl_pc = "done" THEN "done" ELSE "cancelled"
    /\ DropLocals
    /\ IF fl_pc = "process_batch"
       THEN \E failAt \in FailPoints :
               LET r == CallResult("flush", failAt)
               IN  /\ store' = r.store
                   /\ handed' = Ended(handed, "flush", "cancelled", r)
                   /\ call' = [call EXCEPT !["flush"] = NoCall]
       ELSE UNCHANGED <<store, handed, call>>

\* main() is cancelled while it awaits gather (asyncio.run on SIGINT): gather
\* cancels its children, and main() goes on to "finally" when they have ended
Cancel ==
    /\ main_pc = "gather"
    /\ main_pc' = "close"
    /\ CancelTasks
    /\ UNCHANGED <<stream, cursor, acked, errors, operation_queue, put_log, running,
                   pool, closeVars>>

\* "for worker in self.workers: await worker.close()" reaches its first await:
\* a pool that is closing refuses new checkouts and waits for those in use
BeginClosing ==
    /\ main_pc' = "closing"
    /\ close_i' = 0
    /\ pool' = [pool EXCEPT ![0] = "closing"]

\* close() up to its first await: the flag, the get_nowait loop, and the first
\* process_batch(remaining_ops) if anything was queued
Close ==
    /\ main_pc = "close"
    /\ running' = FALSE
    /\ operation_queue' = <<>>
    /\ IF operation_queue # <<>>
       THEN /\ call' = [call EXCEPT !["drain"] = NewCall(0, operation_queue)]
            /\ handed' = Append(handed, Handed("drain", 0, operation_queue, 0, 0))
            /\ main_pc' = "drain"
            /\ drain_i' = 0
            /\ UNCHANGED <<pool, close_i>>
       ELSE /\ BeginClosing
            /\ UNCHANGED <<call, handed, drain_i>>
    /\ UNCHANGED <<consumerVars, put_log, flushVars, store>>

\* a variant that gives up after the first failure, for comparison
TryNextWorker_abandon(raised, i) == FALSE

\* "except: pass" goes on to the next worker, "break" ends the loop
TryNextWorker(raised, i) == raised /\ i + 1 < DB_WORKER_THREADS

\* the rest of the drain loop after the process_batch of worker drain_i ended
AfterDrainCall(r) ==
    /\ store' = r.store
    /\ IF TryNextWorker(r.raised, drain_i)
       THEN /\ drain_i' = drain_i + 1
            /\ call' = [call EXCEPT !["drain"] = NewCall(drain_i + 1, call["drain"].batch)]
            /\ handed' = Append(Ended(handed, "drain",
                                      IF r.raised THEN "raised" ELSE "returned",
                                      r),
                                Handed("drain", drain_i + 1, call["drain"].batch, 0, 0))
            /\ UNCHANGED <<main_pc, pool, close_i>>
       ELSE /\ call' = [call EXCEPT !["drain"] = NoCall]
            /\ handed' = Ended(handed, "drain",
                               IF r.raised THEN "raised" ELSE "returned", r)
            /\ BeginClosing
            /\ UNCHANGED drain_i

DrainReturn ==
    /\ main_pc = "drain"
    /\ LET r == CallResult("drain", 5)
       IN  /\ ~r.raised
           /\ AfterDrainCall(r)
    /\ UNCHANGED <<consumerVars, operation_queue, put_log, running, flushVars>>

DrainRaise ==
    /\ main_pc = "drain"
    /\ \E failAt \in FailPoints :
          LET r == CallResult("drain", failAt)
          IN  /\ r.raised
              /\ AfterDrainCall(r)
    /\ UNCHANGED <<consumerVars, operation_queue, put_log, running, flushVars>>

\* connection_pool.close() of worker close_i returns, which it does once no
\* connection of the pool is in use; after the last one close() and main()
\* return and asyncio.run cancels the tasks that are left
WorkerClosed ==
    /\ main_pc = "closing"
    /\ ~(call["flush"].worker = close_i /\ call["flush"].acquired)
    /\ IF close_i + 1 < DB_WORKER_THREADS
       THEN /\ pool' = [pool EXCEPT ![close_i] = "closed", ![close_i + 1] = "closing"]
            /\ close_i' = close_i + 1
            /\ UNCHANGED <<main_pc, resp, c_pc, flushVars, call, store, handed>>
       ELSE /\ pool' = [pool EXCEPT ![close_i] = "closed"]
            /\ main_pc' = "done"
            /\ CancelTasks
            /\ UNCHANGED close_i
    /\ UNCHANGED <<stream, cursor, acked, errors, operation_queue, put_log, running,
                   drain_i>>

Next ==
    \/ Tick
    \/ \E c \in Sources :
          \/ EnsureGroup(c)
          \/ EnsureGroupRaise(c)
          \/ XReadGroup(c)
          \/ XReadGroupRaise(c)
          \/ XAck(c)
          \/ XAckRaise(c)
          \/ BackoffDone(c)
    \/ FlushGet
    \/ FlushTimeout
    \/ FlushReturn
    \/ FlushRaise
    \/ FlushSleepDone
    \/ Cancel
    \/ Close
    \/ DrainReturn
    \/ DrainRaise
    \/ WorkerClosed

Spec == Init /\ [][Next]_vars

\* ------------------------------------- the pipeline while nothing goes wrong
\* main() with brokers and store that never raise and no cancellation: the
\* runs in which the pipeline takes every message and applies it
ScenarioStreams == {StreamsEndToEnd, StreamsOddOps, StreamsDuplicate}

InitScenario ==
    /\ stream \in ScenarioStreams
    /\ cursor = [c \in Sources |-> 0]
    /\ resp = [c \in Sources |-> <<>>]
    /\ c_pc = [c \in Sources |-> "ensure_group"]
    /\ acked = [c \in Sources |-> <<>>]
    /\ errors = 0
    /\ operation_queue = <<>>
    /\ put_log = <<>>
    /\ running = TRUE
    /\ fl_pc = "get"
    /\ batch = <<>>
    /\ last_batch_time = now
    /\ current_time = now
    /\ wait_start = now
    /\ first_put_time = now
    /\ call = [t \in Callers |-> NoCall]
    /\ pool = [w \in Workers |-> "open"]
    /\ store = EmptyStore
    /\ handed = <<>>
    /\ main_pc = "gather"
    /\ drain_i = 0
    /\ close_i = 0

NextScenario ==
    \/ Tick
    \/ \E c \in Sources :
          \/ EnsureGroup(c)
          \/ XReadGroup(c)
          \/ XAck(c)
    \/ FlushGet
    \/ FlushTimeout
    \/ FlushReturn
    \/ FlushSleepDone

SpecScenario == InitScenario /\ [][NextScenario]_vars

\* ------------------------------------------- the consumers on their own
\* the consume_stream tasks once their groups exist, with brokers that may
\* raise; asyncio.sleep(1) returns, so a back-off that has started ends
NextConsumers ==
    \E c \in Sources :
        \/ EnsureGroup(c)
        \/ XReadGroup(c)
        \/ XReadGroupRaise(c)
        \/ XAck(c)
        \/ XAckRaise(c)
        \/ BackoffDone(c)

SpecConsumers ==
    /\ Init
    /\ [][NextConsumers]_vars
    /\ \A c \in Sources : WF_vars(BackoffDone(c))

\* ------------------------------------- the flush loop while main() is in gather
\* main() is not cancelled and no task ends, so close() never runs; the store
\* may reject any statement.  Time passes, a wait_for on a non-empty queue
\* returns, a wait_for on an empty queue times out, asyncio.sleep returns,
\* and a process_batch call ends, by returning or by raising.
NextLive ==
    \/ Tick
    \/ \E c \in Sources :
          \/ EnsureGroup(c)
          \/ XReadGroup(c)
          \/ XAck(c)
    \/ FlushGet
    \/ FlushTimeout
    \/ FlushReturn
    \/ FlushRaise
    \/ FlushSleepDone

SpecLive ==
    /\ Init
    /\ [][NextLive]_vars
    /\ WF_vars(Tick)
    /\ WF_vars(FlushGet)
    /\ WF_vars(FlushTimeout)
    /\ WF_vars(FlushReturn \/ FlushRaise)
    /\ WF_vars(FlushSleepDone)

\* ------------------------------------------- one worker, called directly
\* test_sync.py test_database_worker: a DatabaseWorker is given a list of
\* operations by a direct call of process_batch and is then closed
RECURSIVE SeqsUpTo(_, _)
SeqsUpTo(S, n) ==
    IF n = 0 THEN {<<>>}
    ELSE LET shorter == SeqsUpTo(S, n - 1)
         IN  shorter \cup {Append(q, x) : q \in shorter, x \in S}

TestBatches ==
    {[i \in 1..Len(es) |-> DecodeEntry(MsgId(0, i), es[i])] :
        es \in SeqsUpTo(WorkerEntries, MaxBatchLen) \ {<<>>}}

InitStores ==
    {EmptyStore,
     [program |-> {"AQID"},
      execution |-> {[program_base64 |-> "AQID", execution_type_id |-> 1,
                      feedback_vector |-> "null", coverage_total |-> 0,
                      execution_flags |-> DEFAULT_EXECUTION_FLAGS]}]}

InitWorker ==
    /\ stream = [c \in Sources |-> <<>>]
    /\ cursor = [c \in Sources |-> 0]
    /\ resp = [c \in Sources |-> <<>>]
    /\ c_pc = [c \in Sources |-> "none"]
    /\ acked = [c \in Sources |-> <<>>]
    /\ errors = 0
    /\ operation_queue = <<>>
    /\ put_log = <<>>
    /\ running = FALSE
    /\ fl_pc = "none"
    /\ batch = <<>>
    /\ last_batch_time = now
    /\ current_time = now
    /\ wait_start = now
    /\ first_put_time = now
    /\ pool = [w \in Workers |-> IF w = 0 THEN "open" ELSE "closed"]
    /\ store \in InitStores
    /\ \E b \in TestBatches :
          /\ call = [t \in Callers |->
                        IF t = "test" THEN [worker |-> 0, batch |-> b, acquired |-> TRUE]
                        ELSE NoCall]
          /\ handed = <<Handed("test", 0, b, 0, 0)>>
    /\ main_pc = "test_process_batch"
    /\ drain_i = 0
    /\ close_i = 0

AfterTestCall(r) ==
    /\ store' = r.store
    /\ handed' = Ended(handed, "test", IF r.raised THEN "raised" ELSE "returned",
                       r)
    /\ call' = [call EXCEPT !["test"] = NoCall]
    /\ main_pc' = "test_close"
    /\ UNCHANGED <<consumerVars, operation_queue, put_log, running, flushVars, pool,
                   closeVars>>

TestReturn ==
    /\ main_pc = "test_process_batch"
    /\ LET r == CallResult("test", 5)
       IN  ~r.raised /\ AfterTestCall(r)

TestRaise ==
    /\ main_pc = "test_process_batch"
    /\ \E failAt \in FailPoints :
          LET r == CallResult("test", failAt)
          IN  r.raised /\ AfterTestCall(r)

\* "finally: await worker.close()"
TestClose ==
    /\ main_pc = "test_close"
    /\ pool' = [pool EXCEPT ![0] = "closed"]
    /\ main_pc' = "done"
    /\ UNCHANGED <<consumerVars, operation_queue, put_log, running, flushVars, call,
                   store, handed, closeVars>>

NextWorker == TestReturn \/ TestRaise \/ TestClose

SpecWorker == InitWorker /\ [][NextWorker]_vars

\* ================================================================ properties
FlushEntries == {i \in DOMAIN handed : handed[i].by = "flush"}
DrainEntries == {i \in DOMAIN handed : handed[i].by = "drain"}

\* C1 as stated: a batch of fewer than BATCH_SIZE operations is handed over by
\* the flush loop only when its first operation has been in the batch for at
\* least BATCH_TIMEOUT
C1_AgeSinceFirstItem ==
    \A i \in FlushEntries :
        Len(handed[i].batch) < BATCH_SIZE => handed[i].first_age >= BATCH_TIMEOUT

\* C1 amended: a batch of fewer than BATCH_SIZE operations is handed over by
\* the flush loop only when at least BATCH_TIMEOUT has passed since
\* last_batch_time, the time of the previous hand-over or of the loop's start
C1_AgeSinceLastFlush ==
    \A i \in FlushEntries :
        Len(handed[i].batch) < BATCH_SIZE => handed[i].since_last >= BATCH_TIMEOUT

\* a non-full batch was flushed although its first operation had only just
\* been appended
C1_Witness ==
    \E i \in FlushEntries :
        /\ Len(handed[i].batch) < BATCH_SIZE
        /\ handed[i].first_age < BATCH_TIMEOUT
        /\ handed[i].since_last >= BATCH_TIMEOUT
        /\ handed[i].outcome = "returned"

\* C2: the iteration in which the batch reaches BATCH_SIZE hands over exactly
\* BATCH_SIZE operations, and an iteration that finds the batch non-empty with
\* BATCH_TIMEOUT elapsed hands it over whatever its size; in particular a
\* wait_for that times out on a non-empty batch is always followed by its flush
C2_FlushFires ==
    [][(fl_pc = "get" /\ fl_pc' \in {"sleep", "process_batch"}) =>
          /\ Len(batch') >= BATCH_SIZE =>
                /\ fl_pc' = "process_batch"
                /\ call'["flush"].batch = batch'
                /\ Len(batch') = BATCH_SIZE
          /\ (batch' # <<>> /\ now - last_batch_time >= BATCH_TIMEOUT) =>
                /\ fl_pc' = "process_batch"
                /\ call'["flush"].batch = batch'
          /\ (operation_queue = <<>> /\ batch # <<>>) =>
                /\ fl_pc' = "process_batch"
                /\ call'["flush"].batch = batch]_vars

\* a full batch went out, and so did a single operation that had waited in the
\* batch through a wait_for that timed out
C2_Witness ==
    /\ \E i \in FlushEntries : Len(handed[i].batch) = BATCH_SIZE
    /\ \E i \in FlushEntries :
          Len(handed[i].batch) = 1 /\ handed[i].first_age >= BATCH_TIMEOUT

\* C3 as stated: every batch handed to a worker, by the flush loop or by the
\* drain of close(), holds between 1 and BATCH_SIZE operations
C3_AllBatchesBounded ==
    \A i \in DOMAIN handed :
        Len(handed[i].batch) >= 1 /\ Len(handed[i].batch) <= BATCH_SIZE

\* C3 amended: every batch handed to a worker holds at least one operation,
\* and a batch handed over by the flush loop holds at most BATCH_SIZE; the
\* drain batch of close() is everything that was queued, whatever its length
C3_FlushBatchesBounded ==
    /\ \A i \in DOMAIN handed : Len(handed[i].batch) >= 1
    /\ \A i \in FlushEntries : Len(handed[i].batch) <= BATCH_SIZE

\* close() handed a worker more than BATCH_SIZE operations in one batch
C3_Witness ==
    \E i \in DrainEntries :
        Len(handed[i].batch) > BATCH_SIZE /\ handed[i].outcome = "returned"

Range(f) == {f[i] : i \in DOMAIN f}

Stopped(c) == c_pc[c] \in {"failed", "cancelled"}

FlushStopped == fl_pc \in {"done", "cancelled"}

\* C4: within one consumer a message is acknowledged only after its operation
\* was put on the queue (the put has happened whenever the xack is awaited),
\* the acknowledged messages are messages read by that consumer, and they are
\* acknowledged in the order they were read; no acknowledgement waits for a
\* worker
C4_EnqueueThenAck ==
    \A c \in Sources :
        /\ \A k \in DOMAIN acked[c] :
              /\ acked[c][k] \in Range(put_log)
              /\ acked[c][k][1] = c
              /\ acked[c][k][2] \in 1..cursor[c]
        /\ \A k, l \in DOMAIN acked[c] : k < l => acked[c][k][2] < acked[c][l][2]
        /\ c_pc[c] = "xack" => Head(resp[c]).msg_id \in Range(put_log)

\* a consumer has acknowledged two messages, one of them a deletion, and no
\* worker has been given either of them
C4_Witness ==
    \E c \in Sources :
        /\ Len(acked[c]) >= 2
        /\ \E k \in DOMAIN acked[c] : stream[c][acked[c][k][2]].op = "del"
        /\ handed = <<>>

\* C5 as stated: when ensure_group fails for one source, the other consumers
\* keep reading, the flush loop keeps running and the pools stay open
C5_FailureIsolated ==
    (\E c \in Sources : c_pc[c] = "failed") =>
        /\ running
        /\ ~FlushStopped
        /\ \A w \in Workers : pool[w] = "open"
        /\ \A c \in Sources : c_pc[c] # "cancelled"

\* C6 as stated: when the worker given the drain batch fails, the batch is
\* given to no other worker
C6_DrainAbandoned == Cardinality(DrainEntries) <= 1

\* the drain entries of handed, in order
DrainSeq == SelectSeq(handed, LAMBDA e : e.by = "drain")

\* C6 amended: when the worker given the drain batch fails, the same batch is
\* given to the next worker, in index order from worker 0, until one returns
\* or every worker has failed
C6_DrainTriesNextWorker ==
    /\ Len(DrainSeq) <= DB_WORKER_THREADS
    /\ \A k \in DOMAIN DrainSeq :
          /\ DrainSeq[k].worker = k - 1
          /\ DrainSeq[k].batch = DrainSeq[1].batch
          /\ k < Len(DrainSeq) => DrainSeq[k].outcome = "raised"
    /\ (DrainSeq # <<>> /\ DrainSeq[Len(DrainSeq)].outcome = "raised") =>
          Len(DrainSeq) = DB_WORKER_THREADS

\* worker 0 failed on the drain batch and worker 1 was then given it
C6_Witness ==
    /\ Len(DrainSeq) = 2
    /\ DrainSeq[1].outcome = "raised"
    /\ DrainSeq[2].outcome = "returned"

\* the handed entries whose call executed the statement of message id
AppliedBy(id) ==
    {i \in DOMAIN handed : \E k \in DOMAIN handed[i].executed : handed[i].executed[k].msg_id = id}

\* C7 as stated: after a shutdown by cancellation, every operation that was
\* enqueued was in a batch whose call returned or whose failure was caught,
\* and no operation was applied by more than one call
C7_NothingLostOrRepeated ==
    (main_pc = "done" /\ \A c \in Sources : c_pc[c] = "cancelled") =>
        \A id \in Range(put_log) :
            /\ \E i \in DOMAIN handed :
                  /\ id \in Range(IdsOf(handed[i].batch))
                  /\ handed[i].outcome \in {"returned", "raised"}
            /\ Cardinality(AppliedBy(id)) <= 1

\* C8 as stated: once the flush loop has stopped or a pool is no longer open,
\* no consumer enqueues or acknowledges a message, and no pool is closed
\* while the flush loop is still running
C8_ShutdownOrder ==
    [][/\ (FlushStopped \/ \E w \in Workers : pool[w] # "open") =>
             (put_log' = put_log /\ acked' = acked)
       /\ (\E w \in Workers : pool'[w] # "open") => FlushStopped']_vars

FirstKey(b) == Get(b[1], "program_base64", "")

\* C9 as stated: every batch that reaches a worker reaches the worker whose
\* index is hash(first key) modulo the pool size
C9_AllRoutedByHash ==
    \A i \in DOMAIN handed :
        handed[i].worker = Hash(FirstKey(handed[i].batch)) % DB_WORKER_THREADS

\* C9 amended: every batch handed over by the flush loop reaches worker
\* hash(first key) modulo the pool size, so two such batches with the same
\* first key reach the same worker; the drain batch of close() goes to
\* worker 0 first, whatever its keys
C9_FlushRoutedByHash ==
    /\ \A i \in FlushEntries :
          handed[i].worker = Hash(FirstKey(handed[i].batch)) % DB_WORKER_THREADS
    /\ \A i, j \in FlushEntries :
          FirstKey(handed[i].batch) = FirstKey(handed[j].batch) =>
              handed[i].worker = handed[j].worker
    /\ DrainSeq # <<>> => DrainSeq[1].worker = 0

\* a flushed batch and the drain batch start with the same key and were
\* handed to different workers
C9_Witness ==
    \E i \in FlushEntries, j \in DrainEntries :
        /\ FirstKey(handed[i].batch) = FirstKey(handed[j].batch)
        /\ handed[i].worker # handed[j].worker
        /\ handed[i].outcome = "returned"
        /\ handed[j].outcome = "returned"

\* the place of each kind of statement in the order C10 states
C10_Rank(g) ==
    CASE g = "program_upserts" -> 1
      [] g = "execution_upserts" -> 2
      [] g = "updates" -> 3
      [] g = "deletes" -> 4

PositionIn(b, id) == CHOOSE k \in DOMAIN b : b[k].msg_id = id

\* C10: the statements one process_batch call executes are ordered by group
\* (program upserts, execution upserts, feedback updates, deletes) and inside
\* a group by the position of the operation in the batch; a call that
\* returns has executed every operation of the batch once
C10_GroupThenArrivalOrder ==
    \A i \in DOMAIN handed :
        LET ex == handed[i].executed
            b == handed[i].batch
        IN  /\ \A k, l \in DOMAIN ex : k < l =>
                  \/ C10_Rank(ex[k].group) < C10_Rank(ex[l].group)
                  \/ /\ ex[k].group = ex[l].group
                     /\ PositionIn(b, ex[k].msg_id) < PositionIn(b, ex[l].msg_id)
            /\ handed[i].outcome = "returned" =>
                  /\ Len(ex) = Len(b)
                  /\ Range(IdsOf(ex)) = Range(IdsOf(b))

\* a call returned for a batch that arrived as a deletion, then a feedback
\* update, then a program upsert
C10_Witness ==
    \E i \in DOMAIN handed :
        /\ handed[i].outcome = "returned"
        /\ Len(handed[i].batch) = 3
        /\ handed[i].batch[1].op = "del"
        /\ handed[i].batch[2].op = "update_feedback"
        /\ GroupOf(handed[i].batch[3]) = "program_upserts"
        /\ Len(handed[i].executed) = 3

\* the stream entry a message id names
Raw(id) == stream[id[1]][id[2]]

\* the kinds of message the producers write
RecognizedOps ==
    {"create_fuzzer", "fuzzer_program", "test_program", "execution",
     "update_feedback", "del"}

\* every operation the consumers have decoded that is still in the program
AllOps ==
    Range(operation_queue) \cup Range(batch)
        \cup UNION {Range(handed[i].batch) : i \in DOMAIN handed}

\* the group C11 gives each kind of operation
C11_KindGroup(op) ==
    CASE op = "del" -> "deletes"
      [] op = "update_feedback" -> "updates"
      [] op = "execution" -> "execution_upserts"
      [] OTHER -> "program_upserts"

\* C11 as stated: every statement a worker executes for a decoded message is
\* in the group of the message's kind: del in deletes, update_feedback in
\* updates, execution in execution upserts, every other kind in program
\* upserts
C11_GroupByKind ==
    \A i \in DOMAIN handed :
        \A k \in DOMAIN handed[i].executed :
            LET o == handed[i].batch[PositionIn(handed[i].batch,
                                                handed[i].executed[k].msg_id)]
            IN  handed[i].executed[k].group = C11_KindGroup(o.op)

\* C12 as stated: no operation is put on the queue for a message whose op
\* field is missing or names no recognized kind, and no statement is executed
\* for it
C12_UnknownOpDropped ==
    /\ \A k \in DOMAIN put_log : Raw(put_log[k]).op \in RecognizedOps
    /\ \A i \in DOMAIN handed :
          \A k \in DOMAIN handed[i].executed :
              Raw(handed[i].executed[k].msg_id).op \in RecognizedOps

\* C13 as stated: no process_batch call fails because a numeric field of one
\* of its operations cannot be parsed
C13_NumericDefaults ==
    \A i \in DOMAIN handed : handed[i].error # "ValueError"

\* the default flag list as C14 states it
C14_DefaultList ==
    <<"is_debug=false", "v8_enable_i18n_support=false", "dcheck_always_on=true",
      "v8_static_library=true", "v8_enable_verify_heap=true", "v8_fuzzilli=true",
      "sanitizer_coverage_flags=trace-pc-guard", "target_cpu=x64">>

\* C14: the operation decoded from an upsert-kind message without an
\* execution_flags field carries exactly the 8-element default list, and the
\* operation decoded from a message with a non-empty execution_flags field
\* carries the non-empty split of that field, not the default list
C14_DefaultFlags ==
    \A o \in AllOps :
        Get(Raw(o.msg_id), "op", "") \notin {"del", "update_feedback"} =>
            /\ Raw(o.msg_id).execution_flags = Absent =>
                  /\ o.execution_flags = C14_DefaultList
                  /\ Len(o.execution_flags) = 8
            /\ Truthy(Raw(o.msg_id).execution_flags) =>
                  /\ o.execution_flags # C14_DefaultList
                  /\ o.execution_flags # <<>>

\* a worker was given a message without flags and a message with flags
C14_Witness ==
    \E i \in DOMAIN handed :
        /\ handed[i].outcome = "returned"
        /\ \E o \in Range(handed[i].batch) :
              Raw(o.msg_id).execution_flags = Absent /\ Len(o.execution_flags) = 8
        /\ \E o \in Range(handed[i].batch) :
              Raw(o.msg_id).execution_flags = FlagsCsv /\ Len(o.execution_flags) = 2

\* every message was read and acknowledged and every operation was applied
Drained ==
    /\ \A c \in Sources : cursor[c] = Len(stream[c]) /\ Len(acked[c]) = Len(stream[c])
    /\ operation_queue = <<>>
    /\ batch = <<>>
    /\ fl_pc # "process_batch"

\* C15 as stated: when the end-to-end scenario has drained, the store holds
\* one program row, for AQID, and one execution row, with coverage 85.5 and
\* the updated feedback vector
C15_EndToEnd ==
    (stream = StreamsEndToEnd /\ Drained) =>
        /\ store.program = {"AQID"}
        /\ Cardinality(store.execution) = 1
        /\ \A r \in store.execution :
              /\ r.program_base64 = "AQID"
              /\ r.coverage_total = 855
              /\ r.feedback_vector = "{edges}"

IdSet(ops) == Range(IdsOf(ops))

\* C16: when process_batch raises for a flushed batch, the flush loop goes on
\* to its sleep with an empty batch; the operations of the failed batch are
\* not in the queue, not in the in-progress batch and in no batch handed over
\* later
C16_FailureSwallowed ==
    /\ [](\A i \in FlushEntries :
            handed[i].outcome = "raised" =>
                /\ IdSet(handed[i].batch) \cap IdSet(operation_queue) = {}
                /\ IdSet(handed[i].batch) \cap IdSet(batch) = {}
                /\ \A j \in DOMAIN handed :
                      j > i => IdSet(handed[i].batch) \cap IdSet(handed[j].batch) = {})
    /\ [][(fl_pc = "process_batch" /\ fl_pc' \notin {"process_batch", "cancelled"}) =>
             (fl_pc' = "sleep" /\ batch' = <<>>)]_vars

\* a flushed batch failed and a later flushed batch was applied
C16_Witness ==
    \E i, j \in FlushEntries :
        /\ i < j
        /\ handed[i].outcome = "raised"
        /\ handed[j].outcome = "returned"
        /\ handed[j].executed # <<>>

InLoop(c) == c_pc[c] \in {"xreadgroup", "xack", "sleep"}

\* C17: a consumer that is in its loop stays in its loop unless it is
\* cancelled; a broker call that raises puts it in the back-off sleep; the
\* back-off sleep is left only for a new xreadgroup; and a consumer in its
\* back-off sleep does get to the next xreadgroup
C17_LoopNeverEnds ==
    /\ [][\A c \in Sources :
            /\ InLoop(c) => (InLoop(c)' \/ c_pc'[c] = "cancelled")
            /\ (c_pc[c] = "sleep" /\ c_pc'[c] # "sleep") =>
                  c_pc'[c] \in {"xreadgroup", "cancelled"}
            /\ (c_pc[c] # c_pc'[c] /\ errors' > errors) => c_pc'[c] = "sleep"]_vars
    /\ \A c \in Sources : (c_pc[c] = "sleep") ~> (c_pc[c] = "xreadgroup")

\* a consumer's xack raised, it paused, and it has read from the broker again
C17_Witness ==
    \E c \in Sources :
        /\ errors > 0
        /\ Len(acked[c]) < cursor[c]
        /\ Len(acked[c]) >= 1
        /\ acked[c][Len(acked[c])][2] = cursor[c]
        /\ c_pc[c] = "xreadgroup"
        /\ \E k \in 1..cursor[c] : k > 1 /\ MsgId(c, k) \in Range(acked[c])
                                   /\ MsgId(c, k - 1) \notin Range(acked[c])

\* JSON text that parses
WellFormedJson(v) == v \in {"null", "{edges}"}

\* C18 as stated: no row of the store holds a feedback vector that is not
\* well-formed JSON (a malformed value is replaced by null before it is
\* written)
C18_MalformedReplaced ==
    \A r \in store.execution : WellFormedJson(r.feedback_vector)

\* C19 as stated: once running is false no consumer starts another read from
\* its broker and the flush loop starts no other wait on the queue: a task
\* that reaches a suspension point after the signal ends there
C19_TasksObserveShutdown ==
    [][(~running) =>
          /\ \A c \in Sources : ~(c_pc[c] # "xreadgroup" /\ c_pc'[c] = "xreadgroup")
          /\ ~(fl_pc # "get" /\ fl_pc' = "get")]_vars

\* C20 as stated: once close() has started no operation is added to the
\* queue, the only batch handed to a worker is the drain batch, and no batch
\* is handed to a worker whose pool is not open
C20_NothingNewAfterClose ==
    [][/\ (~running) =>
             /\ put_log' = put_log
             /\ \A i \in DOMAIN handed' :
                   i > Len(handed) => handed'[i].by = "drain"
       /\ \A i \in DOMAIN handed' :
             i > Len(handed) => pool[handed'[i].worker] = "open"]_vars

\* C21 as stated: when the same test_program message was delivered twice and
\* both operations were applied, in one batch or in two, the store holds
\* exactly one program row, for that program key
C21_DuplicateLeavesOneRow ==
    (stream = StreamsDuplicate /\ Drained) =>
        (store.program = {"AQID"} /\ Cardinality(store.program) = 1)

\* C22 as stated: a batch is never partially applied; when a process_batch
\* call has ended, by returning or by raising in any of its groups, the store
\* has taken the statements of all groups of the batch or of none of them
C22_AllOrNothing ==
    \A i \in DOMAIN handed :
        handed[i].outcome \in {"returned", "raised"} =>
            \/ handed[i].executed = <<>>
            \/ Len(handed[i].executed) = Len(handed[i].batch)

\* C23: when one batch holds a Delete for a program key and a program upsert
\* for the same key, then after the call for that batch has returned there is
\* no program row for the key, whichever of the two arrived first
C23_DeleteWins ==
    \A i \in DOMAIN handed :
        handed[i].outcome = "returned" =>
            \A a, b \in DOMAIN handed[i].batch :
                LET d == handed[i].batch[a]
                    u == handed[i].batch[b]
                IN  (/\ GroupOf(d) = "deletes"
                     /\ GroupOf(u) = "program_upserts"
                     /\ d.program_base64 = u.program_base64)
                        => d.program_base64 \notin store.program

\* a returned batch whose Delete for AQID arrived before the program upsert
\* for AQID, with a second program upsert for the key before the Delete
C23_Witness ==
    \E i \in DOMAIN handed :
        /\ handed[i].outcome = "returned"
        /\ Len(handed[i].batch) = 3
        /\ GroupOf(handed[i].batch[1]) = "program_upserts"
        /\ GroupOf(handed[i].batch[2]) = "deletes"
        /\ GroupOf(handed[i].batch[3]) = "program_upserts"
        /\ \A a \in 1..3 : handed[i].batch[a].program_base64 = "AQID"
        /\ Len(handed[i].executed) = 3
        /\ "AQID" \notin store.program

\* C24 as stated: at every moment at most one process_batch call holds a
\* connection and executes a batch, for every interleaving of the flush loop
\* with the drain of close()
C24_OneWorkerAtATime ==
    Cardinality({t \in Callers : call[t].acquired}) <= 1

\* C25 as stated: every message delivered to a consumer in a read response
\* is put on the queue and acknowledged, also when an exception interrupts
\* the handling of the response; a delivered message is either still in the
\* response being handled or it was enqueued and acknowledged (a consumer
\* reads with ">" and is never given a delivered message again)
C25_DeliveredIsHandled ==
    \A c \in Sources :
        \A i \in 1..cursor[c] :
            \/ \E j \in DOMAIN resp[c] : resp[c][j].msg_id = MsgId(c, i)
            \/ /\ MsgId(c, i) \in Range(put_log)
               /\ MsgId(c, i) \in Range(acked[c])

\* the position at which an operation was given to add_operation
C26_LogPos(id) == CHOOSE k \in DOMAIN put_log : put_log[k] = id

\* two hand-overs of one list of operations: the drain trying the next worker
C26_SameBatch(i, j) ==
    /\ handed[i].by = "drain"
    /\ handed[j].by = "drain"
    /\ handed[i].batch = handed[j].batch

\* an operation is taken off the queue once, by the flush loop or by the
\* drain but not by both, and is placed in one batch only
C26_TakenOnce ==
    \A i, j \in DOMAIN handed :
        (i < j /\ IdSet(handed[i].batch) \cap IdSet(handed[j].batch) # {})
            => C26_SameBatch(i, j)

\* C26 as stated: every queued operation is taken off the queue at most once
\* and placed in at most one batch, and the batches reach the workers in the
\* order in which their operations were enqueued
C26_TakenOnceInOrder ==
    /\ C26_TakenOnce
    /\ \A i, j \in DOMAIN handed :
          (i < j /\ ~C26_SameBatch(i, j)) =>
              \A x \in IdSet(handed[i].batch), y \in IdSet(handed[j].batch) :
                  C26_LogPos(x) < C26_LogPos(y)

\* the ids the brokers can give to the entries of the streams
C27_Ids == UNION {{MsgId(c, i) : i \in DOMAIN s[c]} : s \in InitStreams, c \in Sources}

C27_Handed(id) == \E i \in DOMAIN handed : id \in IdSet(handed[i].batch)

\* C27: while main() stays in gather and process_batch calls end, by return or
\* by exception, every operation put on the queue is eventually in a batch
\* that is handed to a worker, also after earlier batches have failed
C27_QueuedIsHandedOver ==
    \A id \in C27_Ids : (id \in Range(put_log)) ~> C27_Handed(id)

\* every entry of both streams was queued and handed over, in more than one
\* batch, and the first batch failed
C27_Witness ==
    /\ Len(put_log) = 3
    /\ \A k \in DOMAIN put_log : C27_Handed(put_log[k])
    /\ Len(handed) >= 2
    /\ handed[1].outcome = "raised"
    /\ handed[Len(handed)].by = "flush"
    /\ running

=============================================================================
